---- MODULE Spec2Model ----
(***************************************************************************)
(* Retrieval pipeline of django-smbshield (src/rag/services).              *)
(*                                                                         *)
(* The state machines of this module:                                      *)
(*   ChunkSpec  - ChunkerService (chunker.py): a text is typed character   *)
(*                by character and then handed to chunk_text.              *)
(*   StoreSpec  - VectorStoreService (vector_store.py) in front of one     *)
(*                Qdrant collection: construct, insert, search, delete,    *)
(*                clear_collection.                                        *)
(*   QuerySpec  - RAGRetriever (retriever.py): search, search_async,       *)
(*                query, query_async on the module singleton.              *)
(*   LoopSpec   - the coroutines of search_async / query_async on one      *)
(*                event loop.                                              *)
(*   LazySpec   - the lazy handles under request threads.                  *)
(*   DocSpec    - the Document records and the Vector Index under the      *)
(*                upload view, the index_documents command (pending        *)
(*                records or --source directory, with or without --clear)  *)
(*                and the admin actions.                                   *)
(*   ViewSpec   - RAGQueryView.post (views.py) in front of query_async.    *)
(*                                                                         *)
(* A Python str is a sequence of one-character strings.  A dict is a       *)
(* function from keys to values.  An Optional argument is a record        *)
(* [is_none, value].                                                       *)
(***************************************************************************)
EXTENDS Integers, Sequences, FiniteSets, TLC

VARIABLES
    \* ---- ChunkerService -------------------------------------------------
    chunk_size,     \* self.chunk_size (tokens)
    chunk_overlap,  \* self.chunk_overlap (tokens)
    text,           \* the text argument the caller is building
    metadata,       \* the metadata argument of chunk_text
    cpc,            \* caller position: "input" | "returned" | "hung"
    chunk_texts,    \* chunk_text's local: what _split_text_recursive returned
    chunks,         \* the List[Chunk] chunk_text returned
    greedy,         \* history: the outermost greedy accumulation of that call
    \* ---- VectorStoreService + Qdrant ------------------------------------
    collection,     \* the Qdrant collection: [exists, size, points]
    svc,            \* the VectorStoreService instance: [constructed, vector_size]
    call,           \* arguments of the call the client made last
    ret,            \* outcome of that call
    before,         \* history: the collection when that call was made
    client_calls,   \* history: the QdrantClient calls made for that call
    \* ---- RAGRetriever ---------------------------------------------------
    request,        \* the retriever call in hand: [op, question, filter_conditions]
    response,       \* its outcome: a returned value or a raised exception
    agent,          \* self._agent: [built]
    agent_calls,    \* history: the prompts that call sent to the agent
    context_chunks, \* history: what the search stage of that call yielded
    search_stage,   \* history: how the search stage of that call ended
    generation,     \* input: how the generation collaborator behaves in that call
    \* ---- the event loop serving RAGQueryView.post ------------------------
    stage,          \* per request: where its coroutine is
    running,        \* the request whose coroutine holds the loop's thread, or 0
    variant,        \* per request: "search_async" | "query_async"
    \* ---- lazy handles under request threads ------------------------------
    handle,         \* per handle: the instance in self._model / _vector_store /
                    \* _agent (0: None)
    constructions,  \* history: per handle, how many instances were constructed
    tpc,            \* per thread: position in the property body
    target,         \* per thread: the handle it accesses
    built,          \* per thread: the instance it has constructed (0: none)
    got,            \* per thread: the instance the property returned (0: none yet)
    \* ---- Document records ------------------------------------------------
    doc_status,     \* per document: its status column, or "absent"
    doc_fields,     \* per document: [chunk_count, error_message, indexed_at]
    job,            \* the index_documents run: [pc, pending_docs, doc]
    run,            \* history: what the last run of index_documents did
    last_write,     \* history: the status writes of the last operation that wrote
    \* ---- RAGQueryView ----------------------------------------------------
    http_request,   \* the POST in hand: [user, body]
    query_result,   \* history: how rag_retriever.query_async ended for it
    http_response   \* the JsonResponse: [status, body]

vars == <<chunk_size, chunk_overlap, text, metadata, cpc, chunk_texts, chunks,
          greedy,
          collection, svc, call, ret, before, client_calls,
          request, response, agent, agent_calls, context_chunks, search_stage,
          generation,
          stage, running, variant,
          handle, constructions, tpc, target, built, got,
          doc_status, doc_fields, job, run, last_write,
          http_request, query_result, http_response>>

chunkVars == <<chunk_size, chunk_overlap, text, metadata, cpc, chunk_texts, chunks,
               greedy>>
storeVars == <<collection, svc, call, ret, before, client_calls>>
queryVars == <<request, response, agent, agent_calls, context_chunks, search_stage,
               generation>>
loopVars == <<stage, running, variant>>
lazyVars == <<handle, constructions, tpc, target, built, got>>
docVars == <<doc_status, doc_fields, job, run, last_write>>
viewVars == <<http_request, query_result, http_response>>

\* what the actions of each machine leave alone
chunkFrame == <<storeVars, queryVars, loopVars, lazyVars, docVars, viewVars>>
storeFrame == <<chunkVars, queryVars, loopVars, lazyVars, docVars, viewVars>>
queryFrame == <<chunkVars, call, ret, loopVars, lazyVars, docVars, viewVars>>
loopFrame == <<chunkVars, storeVars, queryVars, lazyVars, docVars, viewVars>>
lazyFrame == <<chunkVars, storeVars, queryVars, loopVars, docVars, viewVars>>
docFrame == <<chunkVars, svc, call, ret, before, client_calls, queryVars, loopVars,
              lazyVars, viewVars>>
viewFrame == <<chunkVars, storeVars, queryVars, loopVars, lazyVars, docVars>>

\* {} and Optional values
EmptyDict == [k \in {} |-> 0]
NoneArg == [is_none |-> TRUE, value |-> EmptyDict]
Some(v) == [is_none |-> FALSE, value |-> v]

(***************************************************************************)
(* Bounds of the model.                                                    *)
(***************************************************************************)
MaxLen == 8             \* longest text typed
MaxChunkSize == 1       \* chunk_size ranges over 1..MaxChunkSize tokens
MaxChunkOverlap == 1    \* chunk_overlap ranges over 0..MaxChunkOverlap tokens

Alphabet == {"a", ".", " "}

\* str.strip() with no argument removes these from both ends.
Whitespace == {" ", "\n", "\t", "\r"}

\* chunk_size * 4, chunk_overlap * 4: characters per token.
CharsPerToken == 4

(***************************************************************************)
(* ChunkerService.__init__: the default separator list, in priority order. *)
(***************************************************************************)
Separators ==
    << <<"\n", "\n">>, <<"\n">>, <<".", " ">>, <<"!", " ">>,
       <<"?", " ">>, <<";", " ">>, <<",", " ">>, <<" ">> >>

(***************************************************************************)
(* Python string helpers.                                                  *)
(***************************************************************************)
Min(a, b) == IF a <= b THEN a ELSE b

\* s[i:j] for 0 <= i <= j <= len(s)
Slice(s, i, j) == SubSeq(s, i + 1, j)

\* s[-n:] for 0 < n <= len(s)
Tail_n(s, n) == SubSeq(s, Len(s) - n + 1, Len(s))

RECURSIVE Join(_)
\* "".join(pieces)
Join(pieces) ==
    IF pieces = <<>> THEN <<>> ELSE Head(pieces) \o Join(Tail(pieces))

RECURSIVE SplitFrom(_, _, _, _)
SplitFrom(s, sep, i, cur) ==
    IF i > Len(s) THEN <<cur>>
    ELSE IF i + Len(sep) - 1 <= Len(s) /\ SubSeq(s, i, i + Len(sep) - 1) = sep
         THEN <<cur>> \o SplitFrom(s, sep, i + Len(sep), <<>>)
         ELSE SplitFrom(s, sep, i + 1, Append(cur, s[i]))

\* s.split(sep): the pieces between the non-overlapping occurrences of sep,
\* found left to right; always at least one piece.
Split(s, sep) == SplitFrom(s, sep, 1, <<>>)

RECURSIVE LStrip(_)
LStrip(s) ==
    IF s # <<>> /\ Head(s) \in Whitespace THEN LStrip(Tail(s)) ELSE s

RECURSIVE RStrip(_)
RStrip(s) ==
    IF s # <<>> /\ s[Len(s)] \in Whitespace
    THEN RStrip(SubSeq(s, 1, Len(s) - 1)) ELSE s

\* s.strip()
Strip(s) == RStrip(LStrip(s))

(***************************************************************************)
(* The splitting functions return [hang, out]: hang is TRUE when the call  *)
(* never returns (the while loop of _split_by_characters does not          *)
(* advance), out is the list returned otherwise.                           *)
(***************************************************************************)
Returns(list) == [hang |-> FALSE, out |-> list]
Hangs == [hang |-> TRUE, out |-> <<>>]

RECURSIVE Windows(_, _, _, _)
\* the while loop of _split_by_characters from position start on
Windows(s, size, step, start) ==
    IF start < Len(s)
    THEN <<Slice(s, start, Min(start + size, Len(s)))>>
         \o Windows(s, size, step, start + step)
    ELSE <<>>

\* _split_by_characters(text, chunk_size, overlap): start advances by
\* chunk_size - overlap; when that is not positive, start < len(text) stays
\* true for ever.
SplitByCharacters(s, size, overlap) ==
    IF Len(s) > 0 /\ size - overlap <= 0
    THEN Hangs
    ELSE Returns(Windows(s, size, size - overlap, 0))

\* split + separator if split != splits[-1] else split  (a comparison of
\* values, not of positions)
SplitWithSep(splits, k, sep) ==
    IF splits[k] # splits[Len(splits)] THEN splits[k] \o sep ELSE splits[k]

\* mutant: a closed chunk never seeds the next one
GreedyStepNoSeed(acc, piece, size, overlap) ==
    IF acc.current_length + Len(piece) > size /\ acc.current_chunk # <<>>
    THEN [chunks         |-> Append(acc.chunks, Join(acc.current_chunk)),
          current_chunk  |-> <<piece>>,
          current_length |-> Len(piece)]
    ELSE [chunks         |-> acc.chunks,
          current_chunk  |-> Append(acc.current_chunk, piece),
          current_length |-> acc.current_length + Len(piece)]

\* one iteration of "for split in splits": acc = [chunks, current_chunk,
\* current_length]
GreedyStep(acc, piece, size, overlap) ==
    IF acc.current_length + Len(piece) > size /\ acc.current_chunk # <<>>
    THEN LET chunk_text == Join(acc.current_chunk)
         IN  IF overlap > 0 /\ Len(chunk_text) >= overlap
             THEN [chunks         |-> Append(acc.chunks, chunk_text),
                   current_chunk  |-> <<Tail_n(chunk_text, overlap), piece>>,
                   current_length |-> overlap + Len(piece)]
             ELSE [chunks         |-> Append(acc.chunks, chunk_text),
                   current_chunk  |-> <<piece>>,
                   current_length |-> Len(piece)]
    ELSE [chunks         |-> acc.chunks,
          current_chunk  |-> Append(acc.current_chunk, piece),
          current_length |-> acc.current_length + Len(piece)]

RECURSIVE GreedyLoop(_, _, _, _, _, _)
GreedyLoop(acc, splits, k, sep, size, overlap) ==
    IF k > Len(splits) THEN acc
    ELSE GreedyLoop(GreedyStep(acc, SplitWithSep(splits, k, sep), size, overlap),
                    splits, k + 1, sep, size, overlap)

\* the greedy accumulation of _split_text_recursive, with the trailing
\* "if current_chunk: chunks.append(...)"
Accumulate(splits, sep, size, overlap) ==
    LET acc == GreedyLoop([chunks |-> <<>>, current_chunk |-> <<>>,
                           current_length |-> 0],
                          splits, 1, sep, size, overlap)
    IN  IF acc.current_chunk # <<>>
        THEN Append(acc.chunks, Join(acc.current_chunk))
        ELSE acc.chunks

\* mutant: the re-split only above twice the budget
TooLargeTwice(chunk, size) == Len(chunk) > 2 * size

\* len(chunk) > chunk_size * 1.5
TooLarge(chunk, size) == 2 * Len(chunk) > 3 * size

RECURSIVE SplitTextRecursive(_, _, _, _)
RECURSIVE Resplit(_, _, _, _, _)

\* the "final_chunks" loop over chunks[k..]
Resplit(cs, k, size, overlap, separator_idx) ==
    IF k > Len(cs) THEN Returns(<<>>)
    ELSE LET here == IF TooLarge(cs[k], size)
                     THEN SplitTextRecursive(cs[k], size, overlap, separator_idx + 1)
                     ELSE Returns(<<cs[k]>>)
         IN  IF here.hang THEN Hangs
             ELSE LET rest == Resplit(cs, k + 1, size, overlap, separator_idx)
                  IN  IF rest.hang THEN Hangs
                      ELSE Returns(here.out \o rest.out)

\* _split_text_recursive(text, chunk_size, overlap, separator_idx)
SplitTextRecursive(s, size, overlap, separator_idx) ==
    IF Len(s) <= size THEN Returns(<<s>>)
    ELSE IF separator_idx >= Len(Separators)
    THEN SplitByCharacters(s, size, overlap)
    ELSE LET separator == Separators[separator_idx + 1]
             splits    == Split(s, separator)
         IN  IF Len(splits) = 1
             THEN SplitTextRecursive(s, size, overlap, separator_idx + 1)
             ELSE Resplit(Accumulate(splits, separator, size, overlap),
                          1, size, overlap, separator_idx)

\* no greedy accumulation was run
NoGreedy == [level |-> -1, pieces |-> <<>>, chunks |-> <<>>]

RECURSIVE OuterGreedy(_, _, _, _)
\* the first greedy accumulation _split_text_recursive runs for a text: the
\* separator level that splits it, the pieces "split_with_sep" fed to the
\* loop, and the chunks the loop closed (before the final_chunks re-split)
OuterGreedy(s, size, overlap, separator_idx) ==
    IF Len(s) <= size \/ separator_idx >= Len(Separators) THEN NoGreedy
    ELSE LET separator == Separators[separator_idx + 1]
             splits    == Split(s, separator)
         IN  IF Len(splits) = 1
             THEN OuterGreedy(s, size, overlap, separator_idx + 1)
             ELSE [level  |-> separator_idx,
                   pieces |-> [k \in 1..Len(splits) |->
                                 SplitWithSep(splits, k, separator)],
                   chunks |-> Accumulate(splits, separator, size, overlap)]

\* mutant: only the empty string is rejected
IsBlankEmptyOnly(s) == s = <<>>

\* "not text or not text.strip()"
IsBlank(s) == s = <<>> \/ Strip(s) = <<>>

\* "if metadata is None: metadata = {}", then metadata.copy() with
\* chunk_index and total_chunks set (a key of the same name is overwritten)
ChunkMetadata(md, idx, total) ==
    ("chunk_index" :> idx) @@ ("total_chunks" :> total)
        @@ (IF md.is_none THEN EmptyDict ELSE md.value)

\* mutant: chunk ids counted from 1
MakeChunkOneBased(cts, idx, md) ==
    [text     |-> Strip(cts[idx + 1]),
     metadata |-> ChunkMetadata(md, idx, Len(cts)),
     chunk_id |-> idx + 1]

\* the Chunk built for cts[idx] in "for idx, chunk_text in enumerate(...)"
\* (idx is 0-based)
MakeChunk(cts, idx, md) ==
    [text     |-> Strip(cts[idx + 1]),
     metadata |-> ChunkMetadata(md, idx, Len(cts)),
     chunk_id |-> idx]

\* the list chunk_text builds from chunk_texts
BuildChunks(cts, md) ==
    [i \in 1..Len(cts) |-> MakeChunk(cts, i - 1, md)]

\* metadata arguments: None, and a dict that already has a chunk_index key
Metadatas == {NoneArg, Some([source |-> "doc", chunk_index |-> 9])}

(***************************************************************************)
(* ChunkSpec                                                               *)
(***************************************************************************)
NoCollection == [exists |-> FALSE, size |-> 0, points |-> EmptyDict]
NoService == [constructed |-> FALSE, vector_size |-> 0]
NoCall == [op |-> "none"]
NoReturn == [status |-> "none"]

StoreIdle ==
    /\ collection = NoCollection
    /\ svc = NoService
    /\ call = NoCall
    /\ ret = NoReturn
    /\ before = NoCollection
    /\ client_calls = <<>>

NoRequest == [op |-> "none"]
NoResponse == [status |-> "none"]
NoAgent == [built |-> FALSE]
NoGeneration == [kind |-> "none"]

RetrieverIdle ==
    /\ request = NoRequest
    /\ response = NoResponse
    /\ agent = NoAgent
    /\ agent_calls = <<>>
    /\ context_chunks = <<>>
    /\ search_stage = "none"
    /\ generation = NoGeneration

MaxRequests == 3      \* requests in flight on one event loop
MaxThreads == 2       \* request threads of one process
MaxDocs == 2          \* Document records, and files of a --source directory
MaxRuns == 2          \* runs of the index_documents command

Requests == 1..MaxRequests
Threads == 1..MaxThreads
Handles == {"model", "vector_store", "agent"}
Docs == 1..MaxDocs

LoopIdle ==
    /\ stage = [r \in Requests |-> "none"]
    /\ running = 0
    /\ variant = [r \in Requests |-> "none"]

LazyIdle ==
    /\ handle = [h \in Handles |-> 0]
    /\ constructions = [h \in Handles |-> 0]
    /\ tpc = [t \in Threads |-> "idle"]
    /\ target = [t \in Threads |-> "none"]
    /\ built = [t \in Threads |-> 0]
    /\ got = [t \in Threads |-> 0]

NoJob == [pc |-> "idle", pending_docs |-> <<>>, doc |-> 0]

\* the column defaults of Document: chunk_count 0, error_message blank,
\* indexed_at null (0)
NoFields == [chunk_count |-> 0, error_message |-> "", indexed_at |-> 0]

\* no run of the command yet
NoRun ==
    [number |-> 0, mode |-> "none", clear |-> FALSE, items |-> {},
     outcome |-> [d \in Docs |-> "none"], base |-> {}, indexed_before |-> {},
     ended |-> FALSE, aborted |-> "no"]

DocIdle ==
    /\ doc_status = [d \in Docs |-> "absent"]
    /\ doc_fields = [d \in Docs |-> NoFields]
    /\ job = NoJob
    /\ run = NoRun
    /\ last_write = {}

NoHttpRequest == [method |-> "none"]
NoQueryResult == [kind |-> "none"]
NoHttpResponse == [status |-> 0]

ViewIdle ==
    /\ http_request = NoHttpRequest
    /\ query_result = NoQueryResult
    /\ http_response = NoHttpResponse

ChunkInit ==
    /\ chunk_size \in 1..MaxChunkSize
    /\ chunk_overlap \in 0..MaxChunkOverlap
    /\ text = <<>>
    /\ metadata = NoneArg
    /\ cpc = "input"
    /\ chunk_texts = <<>>
    /\ chunks = <<>>
    /\ greedy = NoGreedy
    /\ StoreIdle
    /\ RetrieverIdle
    /\ LoopIdle
    /\ LazyIdle
    /\ DocIdle
    /\ ViewIdle

\* the caller extends the text by one character
TypeChar ==
    /\ cpc = "input"
    /\ Len(text) < MaxLen
    /\ \E c \in Alphabet : text' = Append(text, c)
    /\ UNCHANGED <<chunk_size, chunk_overlap, metadata, cpc, chunk_texts, chunks,
                   greedy>>
    /\ UNCHANGED chunkFrame

\* ChunkerService.chunk_text(text, metadata)
ChunkText ==
    /\ cpc = "input"
    \* r, g: what _split_text_recursive yields for this text, and its first
    \* greedy accumulation; read only when the text is not blank
    /\ \E r \in {SplitTextRecursive(text, chunk_size * CharsPerToken,
                                    chunk_overlap * CharsPerToken, 0)},
          g \in {OuterGreedy(text, chunk_size * CharsPerToken,
                             chunk_overlap * CharsPerToken, 0)} :
       \E md \in Metadatas :
         /\ metadata' = md
         /\ IF IsBlank(text)
            THEN /\ chunk_texts' = <<>>
                 /\ chunks' = <<>>
                 /\ greedy' = NoGreedy
                 /\ cpc' = "returned"
            ELSE /\ greedy' = g
                 /\ IF r.hang
                    THEN /\ chunk_texts' = <<>>
                         /\ chunks' = <<>>
                         /\ cpc' = "hung"
                    ELSE /\ chunk_texts' = r.out
                         /\ chunks' = BuildChunks(r.out, md)
                         /\ cpc' = "returned"
    /\ UNCHANGED <<chunk_size, chunk_overlap, text>>
    /\ UNCHANGED chunkFrame

ChunkNext == TypeChar \/ ChunkText

ChunkSpec == ChunkInit /\ [][ChunkNext]_vars

(***************************************************************************)
(* Properties of the Chunker.                                              *)
(***************************************************************************)
AllWhitespace(s) == \A i \in 1..Len(s) : s[i] \in Whitespace

IsVisibleChar(c) == c \notin Whitespace

\* the characters of s that strip() can never remove from any chunk edge
Visible(s) == SelectSeq(s, IsVisibleChar)

RECURSIVE CoveredFrom(_, _, _)
\* rest is the concatenation of one suffix of each of cs[i..]: the prefix
\* cut off each chunk is its overlap region
CoveredFrom(rest, cs, i) ==
    IF i > Len(cs) THEN rest = <<>>
    ELSE LET t == Visible(cs[i].text)
         IN  \E k \in 0..Min(Len(t), Len(rest)) :
                 /\ SubSeq(t, Len(t) - k + 1, Len(t)) = SubSeq(rest, 1, k)
                 /\ CoveredFrom(SubSeq(rest, k + 1, Len(rest)), cs, i + 1)

\* C1: for a non-empty text, the chunk texts in order, each with an overlap
\* prefix removed, concatenate to the whole text; whitespace, which the
\* trimming of chunk edges removes, is left out of the comparison.
C1_ChunkCoverage ==
    (cpc = "returned" /\ text # <<>> /\ ~AllWhitespace(text))
        => CoveredFrom(Visible(text), chunks, 1)

\* C2: every Chunk returned has a text that is non-empty and has no leading
\* or trailing whitespace.
C2_ChunkTextNonEmptyTrimmed ==
    cpc = "returned" =>
        \A i \in 1..Len(chunks) :
            /\ chunks[i].text # <<>>
            /\ chunks[i].text[1] \notin Whitespace
            /\ chunks[i].text[Len(chunks[i].text)] \notin Whitespace

\* C3: for N > 0 returned chunks the chunk_ids are 0..N-1 in order, every
\* metadata.total_chunks is N and every metadata.chunk_index is the chunk_id.
C3_ChunkIdContiguity ==
    (cpc = "returned" /\ Len(chunks) > 0) =>
        \A i \in 1..Len(chunks) :
            /\ chunks[i].chunk_id = i - 1
            /\ chunks[i].metadata["total_chunks"] = Len(chunks)
            /\ chunks[i].metadata["chunk_index"] = chunks[i].chunk_id

C3_Witness ==
    /\ cpc = "returned"
    /\ Len(chunks) >= 3
    /\ ~metadata.is_none

\* C4: every string _split_text_recursive returns, and so every chunk text,
\* is at most 1.5 times the character budget long.
C4_ChunkSizeBound ==
    cpc = "returned" =>
        /\ \A i \in 1..Len(chunk_texts) :
              2 * Len(chunk_texts[i]) <= 3 * (chunk_size * 4)
        /\ \A i \in 1..Len(chunks) :
              2 * Len(chunks[i].text) <= 3 * (chunk_size * 4)

\* a text in which the pieces of one separator class accumulate to a chunk
\* longer than 1.5 times the budget, so the re-split rule acts
C4_Witness ==
    /\ cpc = "returned"
    /\ Len(chunk_texts) > 1
    /\ \E k \in 1..Len(Separators) :
         LET sp == Split(text, Separators[k])
         IN  /\ Len(sp) > 1
             /\ \E c \in { x \in UNION {{SubSeq(text, a, b) : b \in a..Len(text)} :
                                          a \in 1..Len(text)} :
                               2 * Len(x) > 3 * (chunk_size * 4) } :
                    \E j \in 1..Len(sp) : sp[j] = c

\* C5: an empty or whitespace-only text gives an empty sequence and no error,
\* for any metadata (None included).
C5_BlankTextEmptyResult ==
    (cpc # "input" /\ AllWhitespace(text)) =>
        (cpc = "returned" /\ chunks = <<>>)

C5_Witness ==
    /\ cpc = "returned"
    /\ Len(text) >= 2
    /\ AllWhitespace(text)
    /\ metadata.is_none
    /\ chunks = <<>>

\* the character count of the configured overlap
OverlapChars == chunk_overlap * CharsPerToken

\* the chunk closed before cs[i] seeds cs[i]
Seeded(cs, i) ==
    i > 1 /\ OverlapChars > 0 /\ Len(cs[i - 1]) >= OverlapChars

\* cs[i] without the overlap characters it was seeded with
Unseeded(cs, i) ==
    IF Seeded(cs, i) THEN SubSeq(cs[i], OverlapChars + 1, Len(cs[i])) ELSE cs[i]

IsPrefix(p, s) == Len(p) <= Len(s) /\ SubSeq(s, 1, Len(p)) = p

NoSeparatorIn(s) ==
    \A k \in 1..Len(Separators) : Len(Split(s, Separators[k])) = 1

\* C27: the fixed-width fallback terminates and covers the text to its end
\* for every text and every chunk_size/overlap configuration: chunk_text
\* always returns; the windows are at most chunk_size characters, their
\* starts advance by chunk_size - overlap, and the last one ends at the last
\* character of the text.
C27_FallbackTerminates ==
    /\ cpc # "hung"
    /\ (cpc = "returned" /\ NoSeparatorIn(text)
            /\ Len(text) > chunk_size * CharsPerToken) =>
           LET size == chunk_size * CharsPerToken
               step == size - OverlapChars
               ws   == chunk_texts
           IN  /\ step > 0
               /\ Len(ws) > 0
               /\ \A i \in 1..Len(ws) :
                      /\ Len(ws[i]) <= size
                      /\ ws[i] = SubSeq(text, (i - 1) * step + 1,
                                        Min((i - 1) * step + size, Len(text)))
               /\ (Len(ws) - 1) * step + Len(ws[Len(ws)]) = Len(text)

(***************************************************************************)
(* VectorStoreService in front of one Qdrant collection.                   *)
(*                                                                         *)
(* Embeddings are unit vectors in fixed point (every vector has Euclidean  *)
(* norm 5), as EmbedderService returns them with normalize_embeddings, so  *)
(* the cosine similarity of two vectors is their dot product in units of   *)
(* 1/25.  Point ids are strings.                                           *)
(***************************************************************************)
MaxBatch == 2           \* longest embeddings / payloads / ids list
MaxTopK == 2            \* top_k ranges over 1..MaxTopK

VectorSizes == {1, 2}   \* embedder_dim of the model a process is configured with
Embeddings == {<<5>>, <<5, 0>>, <<4, 3>>}
Payloads == {[source |-> "s1", text |-> "t1"], [source |-> "s2"]}
CallerIds == {"a"}              \* ids a caller passes
UuidPool == {"u1", "u2"}        \* values uuid.uuid4() can still return
ScoreThresholds == {20, 25, 26} \* 0.8, 1.0 and 1.04 in units of 1/25

NoThreshold == [is_none |-> TRUE, value |-> 0]
NoIds == [is_none |-> TRUE, value |-> <<>>]

SeqsUpTo(S, n) == UNION {[1..k -> S] : k \in 1..n}

RECURSIVE Dot(_, _)
Dot(u, v) ==
    IF u = <<>> THEN 0 ELSE Head(u) * Head(v) + Dot(Tail(u), Tail(v))

\* the outcome of a call: a return value or a raised exception
Ok(op, value) ==
    [op |-> op, status |-> "ok", exception |-> "", detail |-> "", value |-> value]
Raise(op, exception, detail) ==
    [op |-> op, status |-> "error", exception |-> exception, detail |-> detail,
     value |-> <<>>]

(******************************* Qdrant ************************************)

\* client.get_collections / client.create_collection as used by
\* _ensure_collection_exists: an existing collection is returned as it is,
\* whatever its vector size; an absent one is created empty
\* mutant: the collection is created whether or not it exists
EnsureCollectionExistsAlwaysCreates(coll, vector_size) ==
    [exists |-> TRUE, size |-> vector_size, points |-> EmptyDict]

\* _ensure_collection_exists: create the collection unless its name is among
\* the store's collections
EnsureCollectionExists(coll, vector_size) ==
    IF coll.exists THEN coll
    ELSE [exists |-> TRUE, size |-> vector_size, points |-> EmptyDict]

\* the client calls _ensure_collection_exists makes, in order
EnsureCalls(coll) ==
    IF coll.exists THEN <<"get_collections">>
    ELSE <<"get_collections", "create_collection">>

\* the client calls a method gets to make when call number failed_at raises
\* (0: none raises); an exception ends the try block
Attempt(methods, failed_at) ==
    [i \in 1..(IF failed_at = 0 THEN Len(methods) ELSE failed_at) |->
        [method |-> methods[i], ok |-> i # failed_at]]

\* mutant: delete_collection leaves the collection where it is
DeleteCollectionKeepsPoints(coll) == coll

\* client.delete_collection(collection_name): the collection and its points
\* are gone
DeleteCollection(coll) == NoCollection

\* client.delete(points_selector=PointIdsList(points=ids))
DeletePoints(stored, ids) ==
    [id \in DOMAIN stored \ {ids[i] : i \in 1..Len(ids)} |-> stored[id]]

\* mutant: a failure of the store is logged and the call returns normally
StoreFailureSwallowed(op) == Ok(op, <<>>)

\* except Exception as e: raise RuntimeError(f"... failed: {str(e)}")
StoreFailure(op) == Raise(op, "RuntimeError", "store")

\* what client.upsert answers for a list of points: the collection must
\* exist and every vector must have its dimension
UpsertAccepted(coll, points) ==
    /\ coll.exists
    /\ \A i \in 1..Len(points) : Len(points[i].vector) = coll.size

RECURSIVE UpsertFrom(_, _, _)
UpsertFrom(stored, points, i) ==
    IF i > Len(points) THEN stored
    ELSE UpsertFrom((points[i].id :> [vector  |-> points[i].vector,
                                       payload |-> points[i].payload]) @@ stored,
                    points, i + 1)

\* mutant: a point whose id is stored already is left as it is
UpsertKeepExisting(stored, points) ==
    LET new == UpsertFrom(EmptyDict, points, 1)
    IN  stored @@ new

\* client.upsert(points=points): each point replaces whatever is stored under
\* its id, in list order
Upsert(stored, points) == UpsertFrom(stored, points, 1)

\* Filter(must=[FieldCondition(key, MatchValue(value)), ...])
MatchesFilter(payload, query_filter) ==
    query_filter.is_none
    \/ \A key \in DOMAIN query_filter.value :
           key \in DOMAIN payload /\ payload[key] = query_filter.value[key]

\* the points client.query_points may return: those passing the filter whose
\* score is above the threshold; whether a score equal to the threshold
\* passes (keep_equal) is the store's choice
Eligible(coll, req, keep_equal) ==
    { id \in DOMAIN coll.points :
        /\ MatchesFilter(coll.points[id].payload, req.query_filter)
        /\ \/ req.score_threshold.is_none
           \/ Dot(req.query, coll.points[id].vector) > req.score_threshold.value
           \/ /\ keep_equal
              /\ Dot(req.query, coll.points[id].vector) = req.score_threshold.value }

Hit(coll, req, id) ==
    [id      |-> id,
     score   |-> Dot(req.query, coll.points[id].vector),
     payload |-> coll.points[id].payload]

\* the answers client.query_points can give: the limit best eligible points,
\* best first; the order of equal scores is the store's choice
QueryPoints(coll, req) ==
    UNION {
      LET el == Eligible(coll, req, keep_equal)
          n  == Min(req.limit, Cardinality(el))
      IN  { [i \in 1..n |-> Hit(coll, req, order[i])] :
              order \in { o \in [1..n -> el] :
                  /\ \A i, j \in 1..n : i < j =>
                        /\ o[i] # o[j]
                        /\ Dot(req.query, coll.points[o[i]].vector)
                             >= Dot(req.query, coll.points[o[j]].vector)
                  /\ \A id \in el \ {o[i] : i \in 1..n} :
                        \A i \in 1..n :
                            Dot(req.query, coll.points[o[i]].vector)
                              >= Dot(req.query, coll.points[id].vector) } }
      : keep_equal \in BOOLEAN }

(************************* VectorStoreService ******************************)

\* for embedding, payload, point_id in zip(embeddings, payloads, ids):
\* the list stops with the shortest of the three
Zip(embeddings, payloads, ids) ==
    [i \in 1..Min(Len(embeddings), Min(Len(payloads), Len(ids))) |->
        [id |-> ids[i], vector |-> embeddings[i], payload |-> payloads[i]]]

\* the ids insert works with: the caller's, or one fresh uuid4 per embedding
IdLists(c, coll) ==
    IF c.ids.is_none
    THEN { ids \in [1..Len(c.embeddings) -> UuidPool \ DOMAIN coll.points] :
             \A i, j \in 1..Len(ids) : i # j => ids[i] # ids[j] }
    ELSE {c.ids.value}

\* mutant: the score threshold is not handed to the store
QueryRequestNoThreshold(c) ==
    [query           |-> c.query_embedding,
     limit           |-> c.top_k,
     score_threshold |-> NoThreshold,
     query_filter    |-> c.filter_conditions]

\* the arguments search passes to client.query_points
QueryRequest(c) ==
    [query           |-> c.query_embedding,
     limit           |-> c.top_k,
     score_threshold |-> c.score_threshold,
     query_filter    |-> c.filter_conditions]

\* mutant: the results are returned worst first
SearchResultsReversed(hits) ==
    [i \in 1..Len(hits) |-> hits[Len(hits) + 1 - i]]

\* results = [SearchResult(id, score, payload) for hit in response.points]
SearchResults(hits) ==
    [i \in 1..Len(hits) |->
        [id |-> hits[i].id, score |-> hits[i].score, payload |-> hits[i].payload]]

InsertCalls ==
    { [op |-> "insert", embeddings |-> e, payloads |-> p, ids |-> i, single |-> sg] :
        e \in SeqsUpTo(Embeddings, MaxBatch),
        p \in SeqsUpTo(Payloads, MaxBatch),
        i \in {NoIds} \cup {Some(x) : x \in SeqsUpTo(CallerIds, MaxBatch)},
        sg \in {FALSE} }
    \cup
    \* a single embedding (a 1-d array), one payload, one id or None
    { [op |-> "insert", embeddings |-> <<e>>, payloads |-> <<p>>, ids |-> i,
       single |-> TRUE] :
        e \in Embeddings, p \in Payloads,
        i \in {NoIds} \cup {Some(<<x>>) : x \in CallerIds} }

SearchCalls ==
    { [op |-> "search", query_embedding |-> q, top_k |-> k,
       score_threshold |-> t, filter_conditions |-> f] :
        q \in Embeddings,
        k \in 1..MaxTopK,
        t \in {NoThreshold} \cup {[is_none |-> FALSE, value |-> x] : x \in ScoreThresholds},
        f \in {NoneArg, Some([source |-> "s1"])} }

\* ids as a caller of delete passes them: one id or a list of ids
DeleteCalls ==
    { [op |-> "delete", ids |-> i] :
        i \in SeqsUpTo(CallerIds \cup UuidPool, MaxBatch) }

ChunkIdle ==
    /\ chunk_size = 1
    /\ chunk_overlap = 0
    /\ text = <<>>
    /\ metadata = NoneArg
    /\ cpc = "input"
    /\ chunk_texts = <<>>
    /\ chunks = <<>>
    /\ greedy = NoGreedy

StoreInit ==
    /\ StoreIdle
    /\ ChunkIdle
    /\ RetrieverIdle
    /\ LoopIdle
    /\ LazyIdle
    /\ DocIdle
    /\ ViewIdle

\* VectorStoreService.__init__ with _ensure_collection_exists, as
\* get_vector_store_service(embedder_dim) runs it when a process starts
Construct ==
    /\ ret.status = "none"
    /\ \E vector_size \in VectorSizes,
          failed_at \in 0..Len(EnsureCalls(collection)) :
         /\ call' = [op |-> "construct", vector_size |-> vector_size]
         /\ before' = collection
         /\ client_calls' = Attempt(EnsureCalls(collection), failed_at)
         /\ IF failed_at # 0
            THEN /\ ret' = Raise("construct", "RuntimeError", "store")
                 /\ svc' = NoService
                 /\ UNCHANGED collection
            ELSE /\ collection' = EnsureCollectionExists(collection, vector_size)
                 /\ svc' = [constructed |-> TRUE, vector_size |-> vector_size]
                 /\ ret' = Ok("construct", <<>>)
    /\ UNCHANGED storeFrame

\* VectorStoreService.insert(embeddings, payloads, ids)
Insert ==
    /\ ret.status = "none"
    /\ svc.constructed
    /\ \E c \in InsertCalls, fail \in BOOLEAN :
         /\ call' = c
         /\ before' = collection
         /\ IF Len(c.embeddings) # Len(c.payloads)
            THEN /\ ret' = Raise("insert", "ValueError", "length_mismatch")
                 /\ client_calls' = <<>>
                 /\ UNCHANGED collection
            ELSE \E ids \in IdLists(c, collection) :
                   LET points == Zip(c.embeddings, c.payloads, ids)
                   IN  IF \E i \in 1..Len(points) :
                              Len(points[i].vector) # svc.vector_size
                       THEN /\ ret' = Raise("insert", "RuntimeError", "size_mismatch")
                            /\ client_calls' = <<>>
                            /\ UNCHANGED collection
                       ELSE IF fail \/ ~UpsertAccepted(collection, points)
                       THEN /\ ret' = StoreFailure("insert")
                            /\ client_calls' = Attempt(<<"upsert">>, 1)
                            /\ UNCHANGED collection
                       ELSE /\ collection' =
                                 [collection EXCEPT !.points = Upsert(@, points)]
                            /\ client_calls' = Attempt(<<"upsert">>, 0)
                            /\ ret' = Ok("insert", IF c.single THEN <<ids[1]>> ELSE ids)
    /\ UNCHANGED svc
    /\ UNCHANGED storeFrame

\* what search(c) can come to on this collection: the outcome and the store
\* calls made for it; fail says that the store call raises
SearchOutcomes(coll, vs, c, fail) ==
    IF Len(c.query_embedding) # vs.vector_size
    THEN {[ret |-> Raise("search", "ValueError", "size_mismatch"),
           client_calls |-> <<>>]}
    ELSE IF \/ fail
            \/ ~coll.exists
            \/ Len(c.query_embedding) # coll.size
    THEN {[ret |-> StoreFailure("search"),
           client_calls |-> Attempt(<<"query_points">>, 1)]}
    ELSE {[ret |-> Ok("search", SearchResults(hits)),
           client_calls |-> Attempt(<<"query_points">>, 0)] :
            hits \in QueryPoints(coll, QueryRequest(c))}

\* VectorStoreService.search(query_embedding, top_k, score_threshold,
\* filter_conditions)
Search ==
    /\ ret.status = "none"
    /\ svc.constructed
    /\ \E c \in SearchCalls, fail \in BOOLEAN :
         /\ call' = c
         /\ before' = collection
         /\ \E o \in SearchOutcomes(collection, svc, c, fail) :
              /\ ret' = o.ret
              /\ client_calls' = o.client_calls
    /\ UNCHANGED <<collection, svc>>
    /\ UNCHANGED storeFrame

\* VectorStoreService.delete(ids)
Delete ==
    /\ ret.status = "none"
    /\ svc.constructed
    /\ \E c \in DeleteCalls, fail \in BOOLEAN :
         /\ call' = c
         /\ before' = collection
         /\ IF fail \/ ~collection.exists
            THEN /\ ret' = StoreFailure("delete")
                 /\ client_calls' = Attempt(<<"delete">>, 1)
                 /\ UNCHANGED collection
            ELSE /\ collection' =
                      [collection EXCEPT !.points = DeletePoints(@, c.ids)]
                 /\ client_calls' = Attempt(<<"delete">>, 0)
                 /\ ret' = Ok("delete", <<>>)
    /\ UNCHANGED svc
    /\ UNCHANGED storeFrame

\* VectorStoreService.clear_collection(): delete_collection, then
\* _ensure_collection_exists; any exception becomes a RuntimeError
ClearCollection ==
    /\ ret.status = "none"
    /\ svc.constructed
    /\ LET methods == <<"delete_collection">> \o EnsureCalls(DeleteCollection(collection))
       IN  \E failed_at \in 0..Len(methods) :
             /\ call' = [op |-> "clear_collection"]
             /\ before' = collection
             /\ client_calls' = Attempt(methods, failed_at)
             /\ IF failed_at = 1
                THEN /\ ret' = Raise("clear_collection", "RuntimeError", "store")
                     /\ UNCHANGED collection
                ELSE IF failed_at # 0
                THEN /\ ret' = Raise("clear_collection", "RuntimeError", "store")
                     /\ collection' = DeleteCollection(collection)
                ELSE /\ ret' = Ok("clear_collection", <<>>)
                     /\ collection' =
                          EnsureCollectionExists(DeleteCollection(collection),
                                                 svc.vector_size)
    /\ UNCHANGED svc
    /\ UNCHANGED storeFrame

\* the caller takes the outcome and is ready for its next call
Return ==
    /\ ret.status # "none"
    /\ call' = NoCall
    /\ ret' = NoReturn
    /\ before' = NoCollection
    /\ client_calls' = <<>>
    /\ UNCHANGED <<collection, svc>>
    /\ UNCHANGED storeFrame

StoreNext == Construct \/ Insert \/ Search \/ Delete \/ ClearCollection \/ Return

StoreSpec == StoreInit /\ [][StoreNext]_vars

(***************************************************************************)
(* Properties of the Vector Index.                                         *)
(***************************************************************************)
\* the ids insert worked with, as far as zip paired them with an embedding
WrittenIds ==
    {ret.value[i] : i \in 1..Min(Len(call.embeddings), Len(ret.value))}

\* C6: an insert call with an embedding whose length is not the configured
\* vector_size fails as a whole with a size-mismatch error and leaves the
\* point set as it was, wherever the bad vector sits in the batch.
C6_SizeMismatchFailsWholeCall ==
    (/\ call.op = "insert"
     /\ Len(call.embeddings) = Len(call.payloads)
     /\ \E i \in 1..Len(call.embeddings) :
            Len(call.embeddings[i]) # svc.vector_size)
        => /\ ret.status = "error"
           /\ ret.detail = "size_mismatch"
           /\ collection = before

\* C7: constructing the Vector Index against an existing collection of
\* another vector dimension raises an error instead of returning an instance.
C7_DimensionMismatchFailsFast ==
    (/\ call.op = "construct"
     /\ before.exists
     /\ before.size # call.vector_size)
        => ret.status = "error"

\* C8: insert is an upsert: a point inserted under a stored id replaces that
\* point's vector and payload entirely, the count grows only by the ids that
\* were not stored, every other point is unchanged, and a search returns the
\* payload stored now for each id it returns.
C8_UpsertSemantics ==
    /\ (call.op = "insert" /\ ret.status = "ok") =>
         LET n == Min(Len(call.embeddings), Len(ret.value))
         IN  /\ \A i \in 1..n :
                   (\A j \in (i + 1)..n : ret.value[j] # ret.value[i]) =>
                       collection.points[ret.value[i]] =
                           [vector  |-> call.embeddings[i],
                            payload |-> call.payloads[i]]
             /\ DOMAIN collection.points = DOMAIN before.points \cup WrittenIds
             /\ Cardinality(DOMAIN collection.points) =
                    Cardinality(DOMAIN before.points)
                        + Cardinality(WrittenIds \ DOMAIN before.points)
             /\ \A id \in DOMAIN before.points \ WrittenIds :
                    collection.points[id] = before.points[id]
    /\ (call.op = "search" /\ ret.status = "ok") =>
         \A i \in 1..Len(ret.value) :
             /\ ret.value[i].id \in DOMAIN collection.points
             /\ ret.value[i].payload = collection.points[ret.value[i].id].payload

\* an insert that has replaced a stored point by one with another vector and
\* a payload without one of the old keys, next to a point it left alone
C8_Witness ==
    /\ call.op = "insert"
    /\ ret.status = "ok"
    /\ \E id \in WrittenIds \cap DOMAIN before.points :
          /\ before.points[id].vector # collection.points[id].vector
          /\ "text" \in DOMAIN before.points[id].payload
          /\ "text" \notin DOMAIN collection.points[id].payload
    /\ \E id \in DOMAIN before.points : id \notin WrittenIds
    /\ Cardinality(DOMAIN collection.points) = Cardinality(DOMAIN before.points)

\* C28: an insert that returns has persisted exactly one point per supplied
\* embedding, carrying the payload of the same position, and has returned one
\* id per point, also when the caller passes an ids list. (Stated for ids
\* lists without a repeated id, so that no two points share an id.)
C28_OnePointPerEmbedding ==
    (/\ call.op = "insert"
     /\ ret.status = "ok"
     /\ call.ids.is_none
            \/ \A i, j \in 1..Len(call.ids.value) :
                   i # j => call.ids.value[i] # call.ids.value[j])
        => /\ Len(ret.value) = Len(call.embeddings)
           /\ \A i \in 1..Len(call.embeddings) :
                  /\ i <= Len(ret.value)
                  /\ ret.value[i] \in DOMAIN collection.points
                  /\ collection.points[ret.value[i]] =
                         [vector  |-> call.embeddings[i],
                          payload |-> call.payloads[i]]

\* C9: search returns at most top_k results, each with its similarity to the
\* query as score, in descending order of score.
C9_SearchTopKDescending ==
    (call.op = "search" /\ ret.status = "ok") =>
        /\ Len(ret.value) <= call.top_k
        /\ \A i \in 1..Len(ret.value) :
              /\ ret.value[i].id \in DOMAIN collection.points
              /\ ret.value[i].score =
                    Dot(call.query_embedding, collection.points[ret.value[i].id].vector)
        /\ \A i, j \in 1..Len(ret.value) :
              i < j => ret.value[i].score >= ret.value[j].score

\* a search cut off at top_k whose results have different scores
C9_Witness ==
    /\ call.op = "search"
    /\ ret.status = "ok"
    /\ call.score_threshold.is_none
    /\ call.filter_conditions.is_none
    /\ Len(ret.value) = call.top_k
    /\ Len(ret.value) >= 2
    /\ Cardinality(DOMAIN collection.points) > call.top_k
    /\ ret.value[1].score > ret.value[2].score

\* the stored points that pass the filter of the search call
PassingFilter ==
    { id \in DOMAIN collection.points :
        \/ call.filter_conditions.is_none
        \/ \A key \in DOMAIN call.filter_conditions.value :
              /\ key \in DOMAIN collection.points[id].payload
              /\ collection.points[id].payload[key] = call.filter_conditions.value[key] }

ScoreOf(id) == Dot(call.query_embedding, collection.points[id].vector)

\* C10 as claimed: with a score_threshold no result scores below it and a
\* score equal to it is kept, so the results are the top_k of the points
\* scoring at least the threshold: none when the threshold is above every
\* score, the unfiltered top_k when it is below every score.
C10_ThresholdKeepsEqual ==
    (call.op = "search" /\ ret.status = "ok" /\ ~call.score_threshold.is_none) =>
        LET t == call.score_threshold.value
        IN  /\ \A i \in 1..Len(ret.value) : ret.value[i].score >= t
            /\ Len(ret.value) =
                  Min(call.top_k, Cardinality({id \in PassingFilter : ScoreOf(id) >= t}))

\* C10 as amended: with a score_threshold no result scores strictly below
\* it; a threshold above every score gives an empty sequence, not an error;
\* a threshold strictly below every score gives the unfiltered top_k; points
\* scoring strictly above it are never filtered out.  (Whether a score equal
\* to the threshold is kept is the store's choice.)
C10_ThresholdFilter ==
    (call.op = "search" /\ ret.status = "ok" /\ ~call.score_threshold.is_none) =>
        LET t == call.score_threshold.value
        IN  /\ \A i \in 1..Len(ret.value) : ret.value[i].score >= t
            /\ (\A id \in PassingFilter : ScoreOf(id) < t) => ret.value = <<>>
            /\ (\A id \in PassingFilter : ScoreOf(id) > t) =>
                  Len(ret.value) = Min(call.top_k, Cardinality(PassingFilter))
            /\ Len(ret.value) >=
                  Min(call.top_k, Cardinality({id \in PassingFilter : ScoreOf(id) > t}))

\* a search whose threshold has kept one stored point and filtered out another
C10_Witness ==
    /\ call.op = "search"
    /\ ret.status = "ok"
    /\ ~call.score_threshold.is_none
    /\ Len(ret.value) >= 1
    /\ \E id \in PassingFilter : ScoreOf(id) < call.score_threshold.value
    /\ Len(ret.value) < call.top_k

\* C11: after clear_collection() has returned successfully the collection
\* exists with the configured vector size and holds zero points, whatever it
\* held before: every point stored before the call is gone.
C11_ClearLeavesEmptyCollection ==
    (call.op = "clear_collection" /\ ret.status = "ok") =>
        /\ collection.exists
        /\ collection.size = svc.vector_size
        /\ DOMAIN collection.points = {}
        /\ \A id \in DOMAIN before.points : id \notin DOMAIN collection.points

\* a successful clear_collection of a collection that held points
C11_Witness ==
    /\ call.op = "clear_collection"
    /\ ret.status = "ok"
    /\ Cardinality(DOMAIN before.points) >= 2

\* C12: constructing the Vector Index is a check-then-create: an absent
\* collection is created empty, an existing one is left exactly as it is and
\* nothing is created; a successful construction leaves the collection
\* existing, so any further construction finds it and changes nothing.
C12_ConstructIdempotent ==
    (call.op = "construct") =>
        /\ before.exists =>
              /\ collection = before
              /\ \A i \in 1..Len(client_calls) :
                     client_calls[i].method # "create_collection"
        /\ (~before.exists /\ ret.status = "ok") =>
              /\ collection.exists
              /\ collection.size = call.vector_size
              /\ DOMAIN collection.points = {}
        /\ ret.status = "ok" => collection.exists
        /\ ret.status = "error" => collection = before

\* a successful construction in front of a collection that holds points
C12_Witness ==
    /\ call.op = "construct"
    /\ ret.status = "ok"
    /\ before.exists
    /\ DOMAIN before.points # {}
    /\ collection = before

\* C13: a failure of the store during insert, search or delete reaches the
\* caller as a runtime error: the store is called once, not again, and the
\* call has no normal result after a failed store call.
C13_StoreFailureSurfaces ==
    (call.op \in {"insert", "search", "delete"}) =>
        /\ Len(client_calls) <= 1
        /\ (\E i \in 1..Len(client_calls) : ~client_calls[i].ok) =>
              /\ Len(client_calls) = 1
              /\ ret.status = "error"
              /\ ret.exception = "RuntimeError"
              /\ collection = before
        /\ ret.status = "ok" =>
              /\ Len(client_calls) = 1
              /\ client_calls[1].ok

\* a delete of a stored point that the store has refused
C13_Witness ==
    /\ call.op = "delete"
    /\ client_calls = <<[method |-> "delete", ok |-> FALSE]>>
    /\ ret.status = "error"
    /\ \E i \in 1..Len(call.ids) : call.ids[i] \in DOMAIN collection.points

(***************************************************************************)
(* RAGRetriever (retriever.py): search, search_async, query, query_async   *)
(* on the module's singleton, in front of the embedder, the Vector Index   *)
(* and the generation agent.                                               *)
(***************************************************************************)
\* RAGRetriever.top_k
TopK == 5

\* RAGRetriever.score_threshold: 0.7 is 17.5 in units of 1/25; scores are
\* whole numbers of units, so 18 separates the same scores
RetrieverScoreThreshold == 18

Questions == {"q1", "q2"}

\* embedder.encode_query(question): a unit vector
EncodeQuery(question) ==
    IF question = "q1" THEN <<5, 0>> ELSE <<0, 5>>

\* embedder.get_embedding_dimension()
EmbedderDim == Len(EncodeQuery("q1"))

\* the collections a retriever process can find when it starts: none, one of
\* another dimension, or one of the embedder's dimension with indexed points
StoredPoints ==
    ("u1" :> [vector |-> <<5, 0>>, payload |-> [source |-> "s1", text |-> "t1"]])
    @@ ("u2" :> [vector |-> <<4, 3>>, payload |-> [source |-> "s2"]])

InitialCollections ==
    {NoCollection, [exists |-> TRUE, size |-> 1, points |-> EmptyDict]}
    \cup { [exists |-> TRUE, size |-> EmbedderDim,
            points |-> [id \in ids |-> StoredPoints[id]]] :
             ids \in SUBSET DOMAIN StoredPoints }

\* how the generation collaborator can behave in a call: Agent(...) cannot be
\* built, run raises, or run returns a RAGAnswer
RAGAnswers ==
    { [answer |-> "generated", citations |-> c, confidence |-> 80,
       follow_up_questions |-> <<"next?">>] :
        c \in {<<>>, <<[source |-> "s1", page |-> NoneArg, section |-> NoneArg]>>} }

Generations ==
    {[kind |-> "unavailable", error |-> "no model"],
     [kind |-> "throws", error |-> "timeout"]}
    \cup {[kind |-> "answers", output |-> a] : a \in RAGAnswers}

\* vector_store property: the instance is built on first use
\* (get_vector_store_service), with every outcome of _ensure_collection_exists
LazyVectorStore(coll, vs) ==
    IF vs.constructed
    THEN {[collection |-> coll, svc |-> vs, client_calls |-> <<>>, raised |-> FALSE]}
    ELSE { [collection   |-> IF failed_at = 0
                             THEN EnsureCollectionExists(coll, EmbedderDim)
                             ELSE coll,
            svc          |-> IF failed_at = 0
                             THEN [constructed |-> TRUE, vector_size |-> EmbedderDim]
                             ELSE NoService,
            client_calls |-> Attempt(EnsureCalls(coll), failed_at),
            raised       |-> failed_at # 0] :
             failed_at \in 0..Len(EnsureCalls(coll)) }

\* the arguments RAGRetriever.search passes to vector_store.search
RetrieverSearchCall(question, filter_conditions) ==
    [op |-> "search", query_embedding |-> EncodeQuery(question), top_k |-> TopK,
     score_threshold |-> [is_none |-> FALSE, value |-> RetrieverScoreThreshold],
     filter_conditions |-> filter_conditions]

\* context_chunks = [{"text": ..., "source": ..., "page": ..., "section": ...,
\* "score": ...} for result in search_results]
ContextChunks(search_results) ==
    [i \in 1..Len(search_results) |->
        LET payload == search_results[i].payload
        IN  [text    |-> IF "text" \in DOMAIN payload THEN payload.text ELSE "",
             source  |-> IF "source" \in DOMAIN payload THEN payload.source
                         ELSE "Unknown",
             page    |-> NoneArg,
             section |-> NoneArg,
             score   |-> search_results[i].score]]

\* RAGRetriever.search as far as its result and its effects go: the embedding
\* may raise; then the vector store is taken (built on first use) and searched
RetrieverSearchOutcomes(coll, vs, question, filter_conditions) ==
    {[collection |-> coll, svc |-> vs, client_calls |-> <<>>, raised |-> TRUE,
      stage |-> "embedding_failed", chunks |-> <<>>]}
    \cup UNION {
      IF l.raised
      THEN {[collection |-> l.collection, svc |-> l.svc,
             client_calls |-> l.client_calls, raised |-> TRUE,
             stage |-> "index_failed", chunks |-> <<>>]}
      ELSE { [collection   |-> l.collection,
              svc          |-> l.svc,
              client_calls |-> l.client_calls \o o.client_calls,
              raised       |-> o.ret.status = "error",
              stage        |-> IF o.ret.status = "error"
                               THEN "index_failed" ELSE "ok",
              chunks       |-> IF o.ret.status = "ok"
                               THEN ContextChunks(o.ret.value) ELSE <<>>] :
               o \in UNION { SearchOutcomes(l.collection, l.svc,
                                RetrieverSearchCall(question, filter_conditions), fail) :
                                fail \in BOOLEAN } }
      : l \in LazyVectorStore(coll, vs) }

\* _format_context(context): one labelled block per chunk, numbered from 1
FormatContext(context) ==
    IF context = <<>>
    THEN <<[context |-> 0, source_ref |-> "", text |-> "No relevant context found."]>>
    ELSE [i \in 1..Len(context) |->
            [context |-> i, source_ref |-> context[i].source, text |-> context[i].text]]

\* the f-string prompt of query and of query_async
Prompt(op, context, question) ==
    [head         |-> "Context from knowledge base:",
     context_text |-> FormatContext(context),
     question     |-> question,
     tail         |-> IF op = "query"
                      THEN "Provide a helpful answer based on the context above. Remember to: ..."
                      ELSE ""]

\* mutant: the check for an empty context is gone
NoContextNever(context) == FALSE

\* if not context_chunks:
NoContext(context) == context = <<>>

Returned(value) == [status |-> "ok", value |-> value]
Raised(exception) == [status |-> "error", exception |-> exception]

\* the payload returned when there is no context
NoContextPayload(op) ==
    [answer |-> IF op = "query"
                THEN "I couldn't find relevant information to answer your question in my knowledge base."
                ELSE "I couldn't find relevant information in my knowledge base.",
     citations |-> <<>>,
     confidence |-> 0,
     follow_up_questions |-> <<>>,
     search_results_count |-> 0]

\* the payload built from the RAGAnswer the agent returned
AnswerPayload(answer, context) ==
    [answer |-> answer.answer,
     citations |-> [i \in 1..Len(answer.citations) |->
                      [source  |-> answer.citations[i].source,
                       page    |-> answer.citations[i].page,
                       section |-> answer.citations[i].section]],
     confidence |-> answer.confidence,
     follow_up_questions |-> answer.follow_up_questions,
     search_results_count |-> Len(context)]

\* mutant: the exception of the agent reaches the caller
GenerationFailedPropagates(op, context, error) == Raised(error)

\* except Exception as e: the degraded payload is returned
GenerationFailed(op, context, error) ==
    Returned([answer |-> IF op = "query"
                         THEN "I encountered an error generating a response. Please try again."
                         ELSE "Error generating response.",
              citations |-> <<>>,
              confidence |-> 0,
              follow_up_questions |-> <<>>,
              search_results_count |-> Len(context),
              error |-> error])

\* mutant: a failed search stage is answered like a failed generation
SearchStageFailedDegrades(op) ==
    Returned([answer |-> IF op = "query"
                         THEN "I encountered an error generating a response. Please try again."
                         ELSE "Error generating response.",
              citations |-> <<>>,
              confidence |-> 0,
              follow_up_questions |-> <<>>,
              search_results_count |-> 0,
              error |-> "RuntimeError"])

\* context_chunks = self.search(...) stands before the try block of query and
\* of query_async: what search raises leaves the call as an exception
SearchStageFailed(op) == Raised("RuntimeError")

\* the prompts query / query_async send to the agent for this context
QueryPrompts(op, context, question, gen) ==
    IF NoContext(context) \/ gen.kind = "unavailable" THEN <<>>
    ELSE <<Prompt(op, context, question)>>

\* what query / query_async return for this context
QueryResponse(op, context, gen) ==
    IF NoContext(context) THEN Returned(NoContextPayload(op))
    ELSE IF gen.kind = "answers" THEN Returned(AnswerPayload(gen.output, context))
    ELSE GenerationFailed(op, context, gen.error)

RetrieverCalls(op) ==
    { [op |-> op, question |-> q, filter_conditions |-> f] :
        q \in Questions, f \in {NoneArg, Some([source |-> "s1"])} }

QueryInit ==
    /\ ChunkIdle
    /\ collection \in InitialCollections
    /\ svc = NoService
    /\ call = NoCall
    /\ ret = NoReturn
    /\ before = NoCollection
    /\ client_calls = <<>>
    /\ RetrieverIdle
    /\ LoopIdle
    /\ LazyIdle
    /\ DocIdle
    /\ ViewIdle

\* RAGRetriever.search(question, filter_conditions); search_async returns
\* self.search(question, filter_conditions)
SearchHandler(op) ==
    /\ request.op = "none"
    /\ \E r \in RetrieverCalls(op) :
       \E s \in RetrieverSearchOutcomes(collection, svc, r.question, r.filter_conditions) :
         /\ request' = r
         /\ before' = collection
         /\ collection' = s.collection
         /\ svc' = s.svc
         /\ client_calls' = s.client_calls
         /\ context_chunks' = s.chunks
         /\ search_stage' = s.stage
         /\ response' = IF s.raised THEN Raised("RuntimeError") ELSE Returned(s.chunks)
    /\ UNCHANGED <<agent, agent_calls, generation>>
    /\ UNCHANGED queryFrame

\* RAGRetriever.query / query_async(question, user_id, filter_conditions)
QueryHandler(op) ==
    /\ request.op = "none"
    /\ \E r \in RetrieverCalls(op), gen \in Generations :
       \E s \in RetrieverSearchOutcomes(collection, svc, r.question, r.filter_conditions) :
         /\ request' = r
         /\ before' = collection
         /\ collection' = s.collection
         /\ svc' = s.svc
         /\ client_calls' = s.client_calls
         /\ context_chunks' = s.chunks
         /\ search_stage' = s.stage
         /\ IF s.raised
            THEN /\ response' = SearchStageFailed(op)
                 /\ generation' = NoGeneration
                 /\ agent_calls' = <<>>
                 /\ UNCHANGED agent
            ELSE /\ response' = QueryResponse(op, s.chunks, gen)
                 /\ agent_calls' = QueryPrompts(op, s.chunks, r.question, gen)
                 /\ generation' = IF NoContext(s.chunks) THEN NoGeneration ELSE gen
                 /\ agent' = IF NoContext(s.chunks) \/ gen.kind = "unavailable"
                             THEN agent ELSE [built |-> TRUE]
    /\ UNCHANGED queryFrame

RetrieverSearch == SearchHandler("search")
RetrieverSearchAsync == SearchHandler("search_async")
RetrieverQuery == QueryHandler("query")
RetrieverQueryAsync == QueryHandler("query_async")

\* the caller takes the outcome; the retriever keeps its handles
RetrieverReturn ==
    /\ request.op # "none"
    /\ request' = NoRequest
    /\ response' = NoResponse
    /\ agent_calls' = <<>>
    /\ context_chunks' = <<>>
    /\ search_stage' = "none"
    /\ generation' = NoGeneration
    /\ before' = NoCollection
    /\ client_calls' = <<>>
    /\ UNCHANGED <<collection, svc, agent>>
    /\ UNCHANGED queryFrame

QueryNext ==
    \/ RetrieverSearch
    \/ RetrieverSearchAsync
    \/ RetrieverQuery
    \/ RetrieverQueryAsync
    \/ RetrieverReturn

QuerySpec == QueryInit /\ [][QueryNext]_vars

(***************************************************************************)
(* Properties of the Retriever.                                            *)
(***************************************************************************)
\* C14: the query path is read-only: while search, search_async, query or
\* query_async is in hand the Vector Index is as it was before the call; the
\* call has created, inserted, deleted and cleared nothing.
C14_QueryPathReadOnly ==
    (request.op \in {"search", "search_async", "query", "query_async"}) =>
        collection = before

\* C15: whenever the search stage of query() or query_async() has yielded no
\* context items, the call returns a fixed answer with confidence 0.0, no
\* citations and search_results_count 0, and has not invoked the generation
\* collaborator.
C15_NoContextShortCircuit ==
    (/\ request.op \in {"query", "query_async"}
     /\ response.status = "ok"
     /\ context_chunks = <<>>)
        => /\ response.value.answer \in
                {"I couldn't find relevant information to answer your question in my knowledge base.",
                 "I couldn't find relevant information in my knowledge base."}
           /\ response.value.confidence = 0
           /\ response.value.citations = <<>>
           /\ response.value.search_results_count = 0
           /\ agent_calls = <<>>
           /\ generation = NoGeneration

\* a query whose search found stored points but none above the threshold
C15_Witness ==
    /\ request.op \in {"query", "query_async"}
    /\ response.status = "ok"
    /\ context_chunks = <<>>
    /\ DOMAIN collection.points # {}
    /\ request.filter_conditions.is_none

\* C16: whenever the generation collaborator throws during query() or
\* query_async() with a non-empty context, the call raises nothing: it returns
\* a fixed answer with confidence 0.0, no citations, the error detail and
\* search_results_count equal to the number of context items.
C16_GenerationFailureDegrades ==
    (/\ request.op \in {"query", "query_async"}
     /\ context_chunks # <<>>
     /\ generation.kind \in {"throws", "unavailable"})
        => /\ response.status = "ok"
           /\ response.value.answer \in
                {"I encountered an error generating a response. Please try again.",
                 "Error generating response."}
           /\ response.value.confidence = 0
           /\ response.value.citations = <<>>
           /\ "error" \in DOMAIN response.value
           /\ response.value.error = generation.error
           /\ response.value.search_results_count = Len(context_chunks)

\* a query with two context items whose prompt the agent answered by raising
C16_Witness ==
    /\ request.op \in {"query", "query_async"}
    /\ Len(context_chunks) = 2
    /\ generation.kind = "throws"
    /\ Len(agent_calls) = 1
    /\ response.status = "ok"

\* C29: a failure of the search stage of query() or query_async() (the
\* embedding or the index search fails) is not turned into a degraded answer:
\* the call ends with an exception, there is no payload, and the generation
\* collaborator has not been invoked.
C29_SearchFailurePropagates ==
    (/\ request.op \in {"query", "query_async"}
     /\ search_stage \in {"embedding_failed", "index_failed"})
        => /\ response.status = "error"
           /\ "value" \notin DOMAIN response
           /\ agent_calls = <<>>
           /\ generation = NoGeneration

\* a query_async whose index search failed at the store although points are
\* stored, on a retriever whose agent an earlier query has built
C29_Witness ==
    /\ request.op = "query_async"
    /\ search_stage = "index_failed"
    /\ client_calls # <<>>
    /\ client_calls[Len(client_calls)].method = "query_points"
    /\ ~client_calls[Len(client_calls)].ok
    /\ DOMAIN collection.points # {}
    /\ agent.built

\* the other variant of query
OtherVariant(op) == IF op = "query" THEN "query_async" ELSE "query"

\* C17: query() and query_async() share identical logic: for the question,
\* filter, index state and collaborator behaviour of the call in hand, the
\* other variant sends the same prompt and returns the same payload, with no
\* context, on success and on generation failure.
C17_VariantsShareLogic ==
    (request.op \in {"query", "query_async"} /\ response.status = "ok") =>
        /\ response = QueryResponse(OtherVariant(request.op), context_chunks,
                                    generation)
        /\ agent_calls = QueryPrompts(OtherVariant(request.op), context_chunks,
                                      request.question, generation)

(***************************************************************************)
(* The non-blocking variant on an event loop: RAGQueryView.post awaits     *)
(* query_async (views.py), and search_async is awaited the same way.  One  *)
(* thread runs the loop: a coroutine keeps it until it awaits.             *)
(***************************************************************************)
LoopInit ==
    /\ ChunkIdle
    /\ StoreIdle
    /\ RetrieverIdle
    /\ LoopIdle
    /\ LazyIdle
    /\ DocIdle
    /\ ViewIdle

\* a request arrives: its coroutine is scheduled on the loop
Submit(r) ==
    /\ stage[r] = "none"
    /\ \E v \in {"search_async", "query_async"} :
         variant' = [variant EXCEPT ![r] = v]
    /\ stage' = [stage EXCEPT ![r] = "ready"]
    /\ UNCHANGED running
    /\ UNCHANGED loopFrame

\* the loop runs the coroutine: search_async / query_async enter self.search,
\* a plain call, and with it embedder.encode_query
EnterSearch(r) ==
    /\ stage[r] = "ready"
    /\ running = 0
    /\ running' = r
    /\ stage' = [stage EXCEPT ![r] = "embedding"]
    /\ UNCHANGED variant
    /\ UNCHANGED loopFrame

\* encode_query has returned; self.search goes on to vector_store.search, a
\* plain call of the blocking client
EmbeddingDone(r) ==
    /\ stage[r] = "embedding"
    /\ running = r
    /\ stage' = [stage EXCEPT ![r] = "searching"]
    /\ UNCHANGED <<running, variant>>
    /\ UNCHANGED loopFrame

\* vector_store.search has returned: search_async returns, query_async returns
\* its no-context payload or goes on to `await self.agent.run(prompt)`, which
\* gives the thread back to the loop
SearchDone(r) ==
    /\ stage[r] = "searching"
    /\ running = r
    /\ \E no_context \in BOOLEAN :
         stage' = [stage EXCEPT ![r] =
                      IF variant[r] = "search_async" \/ no_context
                      THEN "done" ELSE "generating"]
    /\ running' = 0
    /\ UNCHANGED variant
    /\ UNCHANGED loopFrame

\* the agent's answer (or its exception) has arrived: the coroutine can resume
GenerationDone(r) ==
    /\ stage[r] = "generating"
    /\ stage' = [stage EXCEPT ![r] = "resumable"]
    /\ UNCHANGED <<running, variant>>
    /\ UNCHANGED loopFrame

\* the loop resumes the coroutine, which builds its payload and returns
Resume(r) ==
    /\ stage[r] = "resumable"
    /\ running = 0
    /\ stage' = [stage EXCEPT ![r] = "done"]
    /\ UNCHANGED <<running, variant>>
    /\ UNCHANGED loopFrame

LoopNext ==
    \E r \in Requests :
        \/ Submit(r)
        \/ EnterSearch(r)
        \/ EmbeddingDone(r)
        \/ SearchDone(r)
        \/ GenerationDone(r)
        \/ Resume(r)

LoopSpec == LoopInit /\ [][LoopNext]_vars

\* a request whose coroutine the loop could run now
CanProgress(r) == stage[r] \in {"ready", "resumable"} /\ running = 0

\* C18: in search_async and query_async the embedding call, the Vector Index
\* call and the generation call are suspension points: while a request is in
\* one of these stages, every other request waiting for the loop can be run.
C18_StagesAreSuspensionPoints ==
    \A r, other \in Requests :
        (/\ r # other
         /\ stage[r] \in {"embedding", "searching", "generating"}
         /\ stage[other] \in {"ready", "resumable"})
            => CanProgress(other)

(***************************************************************************)
(* Lazy handles: EmbedderService.model, RAGRetriever.vector_store and      *)
(* RAGRetriever.agent, each read by request threads of one process.  The   *)
(* property bodies take no lock, so the threads interleave between the     *)
(* test, the construction, the assignment and the return.                  *)
(***************************************************************************)
LazyInit ==
    /\ ChunkIdle
    /\ StoreIdle
    /\ RetrieverIdle
    /\ LoopIdle
    /\ LazyIdle
    /\ DocIdle
    /\ ViewIdle

\* a thread starts to evaluate one of the properties
Access(t) ==
    /\ tpc[t] = "idle"
    /\ \E h \in Handles : target' = [target EXCEPT ![t] = h]
    /\ tpc' = [tpc EXCEPT ![t] = "test"]
    /\ UNCHANGED <<handle, constructions, built, got>>
    /\ UNCHANGED lazyFrame

\* if self._model is None:
TestNone(t) ==
    /\ tpc[t] = "test"
    /\ tpc' = [tpc EXCEPT ![t] =
                  IF handle[target[t]] = 0 THEN "construct" ELSE "return"]
    /\ UNCHANGED <<handle, constructions, target, built, got>>
    /\ UNCHANGED lazyFrame

\* SentenceTransformer(...) / get_vector_store_service(...) / Agent(...):
\* a new instance, not assigned yet
ConstructInstance(t) ==
    /\ tpc[t] = "construct"
    /\ constructions' = [constructions EXCEPT ![target[t]] = @ + 1]
    /\ built' = [built EXCEPT ![t] = constructions[target[t]] + 1]
    /\ tpc' = [tpc EXCEPT ![t] = "assign"]
    /\ UNCHANGED <<handle, target, got>>
    /\ UNCHANGED lazyFrame

\* self._model = <the new instance>
AssignHandle(t) ==
    /\ tpc[t] = "assign"
    /\ handle' = [handle EXCEPT ![target[t]] = built[t]]
    /\ tpc' = [tpc EXCEPT ![t] = "return"]
    /\ UNCHANGED <<constructions, target, built, got>>
    /\ UNCHANGED lazyFrame

\* return self._model
ReturnHandle(t) ==
    /\ tpc[t] = "return"
    /\ got' = [got EXCEPT ![t] = handle[target[t]]]
    /\ tpc' = [tpc EXCEPT ![t] = "done"]
    /\ UNCHANGED <<handle, constructions, target, built>>
    /\ UNCHANGED lazyFrame

LazyNext ==
    \E t \in Threads :
        \/ Access(t)
        \/ TestNone(t)
        \/ ConstructInstance(t)
        \/ AssignHandle(t)
        \/ ReturnHandle(t)

LazySpec == LazyInit /\ [][LazyNext]_vars

\* C19: lazy initialisation is race-free under concurrent first use: each
\* handle is constructed at most once, and all callers of a handle get the
\* same instance.
C19_LazyInitRaceFree ==
    /\ \A h \in Handles : constructions[h] <= 1
    /\ \A t, u \in Threads :
          (tpc[t] = "done" /\ tpc[u] = "done" /\ target[t] = target[u])
              => got[t] = got[u]

(***************************************************************************)
(* Document records (models.py): written by the upload view, by the        *)
(* index_documents command and by the admin actions of DocumentAdmin.      *)
(***************************************************************************)
DocInit ==
    /\ ChunkIdle
    /\ StoreIdle
    /\ RetrieverIdle
    /\ LoopIdle
    /\ LazyIdle
    /\ DocIdle
    /\ ViewIdle

\* the write of a status column, as it shows in the table
Write(d, to, by) == [doc |-> d, from |-> doc_status[d], to |-> to, by |-> by]

\* for doc in Document.objects.filter(status='pending'), in id order
RECURSIVE PendingFrom(_)
PendingFrom(d) ==
    IF d > MaxDocs THEN <<>>
    ELSE (IF doc_status[d] = "pending" THEN <<d>> ELSE <<>>) \o PendingFrom(d + 1)

\* the number of chunks chunk_text makes of the text of document (or file) d
NumChunks(d) == ((d - 1) % 2) + 1

\* embedder_service.encode_documents(texts): one vector of the embedder's
\* dimension per chunk
EncodeDocuments(n) == [i \in 1..n |-> EncodeQuery("q1")]

\* the payloads _index_pending_documents builds for the chunks of a record
PendingPayloads(d) ==
    [i \in 1..NumChunks(d) |->
        [document_id |-> d, chunk_index |-> i - 1, source |-> "upload"]]

\* the payloads _index_from_directory builds for the chunks of a file
SourcePayloads(f) ==
    [i \in 1..NumChunks(f) |->
        [file |-> f, chunk_index |-> i - 1, total_chunks |-> NumChunks(f)]]

\* ids = [str(uuid.uuid4()) for _ in range(len(embeddings))]: ids not stored
\* yet. The stored ids of this machine are 1..N, so the next n numbers are
\* new.
FreshIds(stored, n) == [k \in 1..n |-> Cardinality(DOMAIN stored) + k]

\* the points vector_store.insert(embeddings, payloads) upserts
JobPoints(coll, payloads) ==
    Zip(EncodeDocuments(Len(payloads)), payloads,
        FreshIds(coll.points, Len(payloads)))

\* vector_store.insert(embeddings, payloads) returns
JobInsert(coll, payloads) ==
    [coll EXCEPT !.points = Upsert(coll.points, JobPoints(coll, payloads))]

\* mutant: the upsert that raised has stored its first point
JobInsertFailedKeepsPoint(coll, payloads) ==
    [coll EXCEPT !.points =
        Upsert(coll.points, SubSeq(JobPoints(coll, payloads), 1, 1))]

\* vector_store.insert raises: client.upsert has stored nothing
JobInsertFailed(coll, payloads) == coll

\* how the body of the loop can end for one document
DocOutcomes == {"load_failed", "no_chunks", "embed_failed", "insert_failed", "indexed"}

\* doc.error_message = 'No chunks created', or str(e) in the except branch
FailedFields(fields, outcome) ==
    [fields EXCEPT !.error_message =
        CASE outcome = "no_chunks" -> "No chunks created"
          [] outcome = "load_failed" -> "The 'file' attribute has no file associated with it."
          [] outcome = "embed_failed" -> "Failed to encode texts: out of memory"
          [] OTHER -> "Insertion failed: connection refused"]

\* doc.chunk_count = len(chunks); doc.indexed_at = timezone.now();
\* doc.error_message = ''  (the time is the number of the run)
IndexedFields(n, now) == [chunk_count |-> n, error_message |-> "", indexed_at |-> now]

RECURSIVE InOrder(_, _)
\* the members of S from d on, in ascending order
InOrder(S, d) ==
    IF d > MaxDocs THEN <<>>
    ELSE (IF d \in S THEN <<d>> ELSE <<>>) \o InOrder(S, d + 1)

\* handle() before the loop: get_vector_store_service builds the service
\* (_ensure_collection_exists), then vector_store.clear_collection() under
\* --clear; an exception of either ends the command
HandleOutcomes(coll, clear_first) ==
    {[collection |-> coll, raised |-> TRUE]}
    \cup LET created == EnsureCollectionExists(coll, EmbedderDim)
         IN  IF ~clear_first THEN {[collection |-> created, raised |-> FALSE]}
             ELSE {[collection |-> created, raised |-> TRUE],
                   [collection |-> DeleteCollection(created), raised |-> TRUE],
                   [collection |-> EnsureCollectionExists(DeleteCollection(created),
                                                          EmbedderDim),
                    raised |-> FALSE]}

\* DocumentUploadView.post: Document.objects.acreate(..., status='pending')
Upload(d) ==
    /\ doc_status[d] = "absent"
    /\ doc_status' = [doc_status EXCEPT ![d] = "pending"]
    /\ doc_fields' = [doc_fields EXCEPT ![d] = NoFields]
    /\ last_write' = {Write(d, "pending", "upload")}
    /\ UNCHANGED <<job, run, collection>>
    /\ UNCHANGED docFrame

\* index_documents starts: handle() builds the vector store, clears it under
\* --clear, and either loads the files of --source or reads the pending
\* records (with none it returns at once: the loop is empty)
StartIndexing ==
    /\ job.pc = "idle"
    /\ run.number < MaxRuns
    /\ \E clear_first \in BOOLEAN, mode \in {"pending", "source"}, loaded \in SUBSET Docs :
       \E h \in HandleOutcomes(collection, clear_first) :
         LET items == IF mode = "pending" THEN PendingFrom(1) ELSE InOrder(loaded, 1)
             started == [number |-> run.number + 1, mode |-> mode, clear |-> clear_first,
                         items |-> {items[i] : i \in 1..Len(items)},
                         outcome |-> [d \in Docs |-> "none"],
                         base |-> DOMAIN h.collection.points,
                         indexed_before |-> {d \in Docs : doc_status[d] = "indexed"},
                         ended |-> FALSE, aborted |-> "no"]
         IN  /\ mode = "pending" => loaded = {}
             /\ collection' = h.collection
             /\ IF h.raised
                THEN /\ job' = NoJob
                     /\ run' = [started EXCEPT !.items = {}, !.ended = TRUE,
                                               !.aborted = "start"]
                ELSE /\ job' = [pc |-> IF mode = "pending" THEN "loop" ELSE "files",
                                pending_docs |-> items, doc |-> 0]
                     /\ run' = started
    /\ UNCHANGED <<doc_status, doc_fields, last_write>>
    /\ UNCHANGED docFrame

\* the head of the loop: doc.status = 'processing'; doc.save()
BeginDocument ==
    /\ job.pc = "loop"
    /\ job.pending_docs # <<>>
    /\ LET d == Head(job.pending_docs)
       IN  /\ doc_status' = [doc_status EXCEPT ![d] = "processing"]
           /\ last_write' = {Write(d, "processing", "index_documents")}
           /\ job' = [pc |-> "doc", pending_docs |-> Tail(job.pending_docs), doc |-> d]
    /\ UNCHANGED <<doc_fields, run, collection>>
    /\ UNCHANGED docFrame

\* the body of the loop: load, chunk, embed, insert, then doc.status =
\* 'indexed' with its fields; 'failed' when no chunk was created or an
\* exception was caught; doc.save()
FinishDocument ==
    /\ job.pc = "doc"
    /\ \E outcome \in DocOutcomes :
         LET d == job.doc
             payloads == PendingPayloads(d)
         IN  /\ outcome = "indexed" =>
                    UpsertAccepted(collection, JobPoints(collection, payloads))
             /\ collection' =
                    IF outcome = "indexed" THEN JobInsert(collection, payloads)
                    ELSE IF outcome = "insert_failed"
                    THEN JobInsertFailed(collection, payloads)
                    ELSE collection
             /\ doc_status' = [doc_status EXCEPT ![d] =
                                  IF outcome = "indexed" THEN "indexed" ELSE "failed"]
             /\ doc_fields' = [doc_fields EXCEPT ![d] =
                                  IF outcome = "indexed"
                                  THEN IndexedFields(Len(payloads), run.number)
                                  ELSE FailedFields(@, outcome)]
             /\ last_write' = {Write(d, IF outcome = "indexed" THEN "indexed"
                                        ELSE "failed", "index_documents")}
             /\ run' = [run EXCEPT !.outcome[d] = outcome]
    /\ job' = [job EXCEPT !.pc = "loop", !.doc = 0]
    /\ UNCHANGED docFrame

\* one turn of the loop of _index_from_directory: chunk, embed, insert; no
\* exception is caught there, so a failed embedding or insert ends the command
IndexFile ==
    /\ job.pc = "files"
    /\ job.pending_docs # <<>>
    /\ \E outcome \in DocOutcomes \ {"load_failed"} :
         LET f == Head(job.pending_docs)
             payloads == SourcePayloads(f)
         IN  /\ outcome = "indexed" =>
                    UpsertAccepted(collection, JobPoints(collection, payloads))
             /\ collection' =
                    IF outcome = "indexed" THEN JobInsert(collection, payloads)
                    ELSE IF outcome = "insert_failed"
                    THEN JobInsertFailed(collection, payloads)
                    ELSE collection
             /\ IF outcome \in {"embed_failed", "insert_failed"}
                THEN /\ job' = NoJob
                     /\ run' = [run EXCEPT !.outcome[f] = outcome, !.ended = TRUE,
                                           !.aborted = "document"]
                ELSE /\ job' = [job EXCEPT !.pending_docs = Tail(@)]
                     /\ run' = [run EXCEPT !.outcome[f] = outcome]
    /\ UNCHANGED <<doc_status, doc_fields, last_write>>
    /\ UNCHANGED docFrame

\* the loop has run through the records (or files) it read
EndIndexing ==
    /\ job.pc \in {"loop", "files"}
    /\ job.pending_docs = <<>>
    /\ job' = NoJob
    /\ run' = [run EXCEPT !.ended = TRUE]
    /\ UNCHANGED <<doc_status, doc_fields, last_write, collection>>
    /\ UNCHANGED docFrame

\* queryset.update(status='pending', error_message='') on the selected
\* records
AdminAction(queryset, by) ==
    /\ queryset # {}
    /\ \A d \in queryset : doc_status[d] # "absent"
    /\ doc_status' = [d \in Docs |-> IF d \in queryset THEN "pending"
                                     ELSE doc_status[d]]
    /\ doc_fields' = [d \in Docs |-> IF d \in queryset
                                     THEN [doc_fields[d] EXCEPT !.error_message = ""]
                                     ELSE doc_fields[d]]
    /\ last_write' = {Write(d, "pending", by) : d \in queryset}
    /\ UNCHANGED <<job, run, collection>>
    /\ UNCHANGED docFrame

\* DocumentAdmin.mark_pending
MarkPending(queryset) == AdminAction(queryset, "mark_pending")

\* DocumentAdmin.reindex_documents
ReindexDocuments(queryset) == AdminAction(queryset, "reindex_documents")

DocNext ==
    \/ \E d \in Docs : Upload(d)
    \/ \E queryset \in SUBSET Docs :
          MarkPending(queryset) \/ ReindexDocuments(queryset)
    \/ StartIndexing
    \/ BeginDocument
    \/ FinishDocument
    \/ IndexFile
    \/ EndIndexing

DocSpec == DocInit /\ [][DocNext]_vars

\* C20: the status of a Document record only moves pending -> processing,
\* processing -> indexed and processing -> failed, and every such move is
\* made by the indexing command; nothing else moves a record out of indexed,
\* failed or processing or lets it skip processing.
C20_StatusTransitions ==
    \A w \in last_write :
        (w.from # "absent" /\ w.to # w.from) =>
            /\ <<w.from, w.to>> \in {<<"pending", "processing">>,
                                      <<"processing", "indexed">>,
                                      <<"processing", "failed">>}
            /\ w.by = "index_documents"

\* the ids of the points stored for Document record d
PointsOfDoc(d) ==
    {id \in DOMAIN collection.points :
        /\ "document_id" \in DOMAIN collection.points[id].payload
        /\ collection.points[id].payload.document_id = d}

\* the ids of the points stored for file f of a --source directory
PointsOfFile(f) ==
    {id \in DOMAIN collection.points :
        /\ "file" \in DOMAIN collection.points[id].payload
        /\ collection.points[id].payload.file = f}

\* the points the run in hand (or the last one) has inserted for item x
InsertedByRun(x) ==
    (IF run.mode = "source" THEN PointsOfFile(x) ELSE PointsOfDoc(x)) \ run.base

\* the record is indexed with its fields in order, or failed with a message
Settled(d) ==
    \/ /\ doc_status[d] = "indexed"
       /\ doc_fields[d].chunk_count = Cardinality(InsertedByRun(d))
       /\ doc_fields[d].chunk_count > 0
       /\ doc_fields[d].indexed_at # 0
       /\ doc_fields[d].error_message = ""
    \/ /\ doc_status[d] = "failed"
       /\ doc_fields[d].error_message # ""

AllSettled == \A d \in run.items : Settled(d)

\* C21: every document that is pending when a run of the indexing job starts
\* is, when the run finishes, either indexed (chunk_count the number of chunks
\* inserted for it, above 0, indexed_at set, error_message empty) or failed
\* (with an error_message); none is left pending or processing, whichever of
\* loading, chunking, embedding or insertion fails.
C21_PendingSettledAtEnd ==
    [][(job.pc = "loop" /\ job'.pc = "idle") => AllSettled']_vars

\* C22: when chunking, embedding or inserting one document fails, the run is
\* not aborted and every other document of the batch is still processed, and
\* indexed when nothing of its own fails; in both batch modes (pending
\* records and --source directory).
C22_FailureIsolation ==
    (run.ended /\ run.aborted # "start") =>
        /\ run.aborted = "no"
        /\ \A x \in run.items :
              /\ run.outcome[x] # "none"
              /\ run.outcome[x] = "indexed" =>
                     Cardinality(InsertedByRun(x)) = NumChunks(x)

\* C24: after a run with --clear (over the Document records, no --source),
\* every Document record that was indexed before the run has its chunks in
\* the Vector Index again, and no record has status indexed while the index
\* holds no points for it.
C24_ClearReindexesAll ==
    (run.ended /\ run.clear /\ run.mode = "pending" /\ run.aborted = "no") =>
        /\ \A d \in run.indexed_before : PointsOfDoc(d) # {}
        /\ \A d \in Docs : doc_status[d] = "indexed" => PointsOfDoc(d) # {}

\* C25: re-indexing is idempotent: after an indexed document is queued again
\* and the job has run again, the index holds the same points for it; the
\* count does not grow and no chunk of a document is stored twice.
C25_ReindexIdempotent ==
    \A i, j \in DOMAIN collection.points :
        (/\ i # j
         /\ "document_id" \in DOMAIN collection.points[i].payload
         /\ "document_id" \in DOMAIN collection.points[j].payload)
            => <<collection.points[i].payload.document_id,
                 collection.points[i].payload.chunk_index>>
                 # <<collection.points[j].payload.document_id,
                      collection.points[j].payload.chunk_index>>

Users == [has_full_access : BOOLEAN, is_staff : BOOLEAN]

\* question strings of a JSON body; LongQuestion stands for one of more than
\* MaxQuestionChars characters
LongQuestion == "q-long"
BodyQuestions == Questions \cup {"", " ", " q1", LongQuestion}

\* question.strip()
StripQuestion(q) ==
    IF q = " " THEN "" ELSE IF q = " q1" THEN "q1" ELSE q

\* the longest question the view accepts
MaxQuestionChars == 1000

\* len(question)
QuestionChars(q) ==
    IF q = LongQuestion THEN MaxQuestionChars + 1
    ELSE IF q = "" THEN 0 ELSE 2

NoCategory == [is_none |-> TRUE, value |-> ""]

\* request.body: not JSON, or a JSON object with a question and a category
Bodies ==
    {[json |-> FALSE]}
    \cup {[json |-> TRUE, question |-> q, category |-> c] :
            q \in BodyQuestions, c \in {NoCategory, Some("c1")}}

\* str(e) of the exception a failed search stage raises
ErrorTexts(failed_stage) ==
    IF failed_stage = "embedding_failed"
    THEN {"Failed to encode texts: CUDA out of memory",
          "Could not load embedding model 'all-MiniLM-L6-v2'. Error: no such file"}
    ELSE {"Search operation failed: connection refused qdrant:6333",
          "Could not create/access collection: timed out"}

AllErrorTexts ==
    ErrorTexts("embedding_failed") \cup ErrorTexts("index_failed")
        \cup {"no model", "timeout"}

\* filter_conditions if filter_conditions else None
ViewFilter(category) ==
    IF category.is_none \/ category.value = ""
    THEN NoneArg ELSE Some([category |-> category.value])

\* how await rag_retriever.query_async(...) can end on this index: the
\* exception of the search stage, or the payload query_async returns
QueryAsyncResults(coll, vs, ag, question, filter_conditions) ==
    UNION {
      IF s.raised
      THEN {[kind |-> "raised", text |-> t, collection |-> s.collection,
             svc |-> s.svc, agent |-> ag] : t \in ErrorTexts(s.stage)}
      ELSE {[kind |-> "returned",
             payload |-> QueryResponse("query_async", s.chunks, gen).value,
             collection |-> s.collection, svc |-> s.svc,
             agent |-> IF NoContext(s.chunks) \/ gen.kind = "unavailable"
                       THEN ag ELSE [built |-> TRUE]] : gen \in Generations}
      : s \in RetrieverSearchOutcomes(coll, vs, question, filter_conditions) }

JsonResponse(status, body) == [status |-> status, body |-> body]

\* the checks of post before the query is run; status 0 when all pass
Rejection(req) ==
    IF ~req.user.has_full_access
    THEN JsonResponse(403, [error |-> "subscription_required",
                            message |-> "Knowledge Base Q&A requires a Pro subscription.",
                            upgrade_url |-> "/pricing/"])
    ELSE IF ~req.body.json
    THEN JsonResponse(400, [error |-> "Invalid JSON"])
    ELSE IF StripQuestion(req.body.question) = ""
    THEN JsonResponse(400, [error |-> "Question is required"])
    ELSE IF QuestionChars(StripQuestion(req.body.question)) > MaxQuestionChars
    THEN JsonResponse(400, [error |-> "Question too long (max 1000 chars)"])
    ELSE NoHttpResponse

\* the response of post once query_async has ended: the except branch, or
\* {**result, 'query_id': ..., 'response_time_ms': ...}
QueryOutcomeResponse(result, query_id, response_time_ms) ==
    IF result.kind = "raised"
    THEN JsonResponse(500, [error |-> "Query failed", message |-> result.text])
    ELSE JsonResponse(200, [query_id |-> query_id,
                            response_time_ms |-> response_time_ms]
                               @@ result.payload)

\* rag_query.id if the RAGQuery row was saved, else None
QueryIds == {[is_none |-> TRUE, value |-> 0], [is_none |-> FALSE, value |-> 1]}

ResponseTimes == {3, 4}

ViewInit ==
    /\ ChunkIdle
    /\ collection \in InitialCollections
    /\ svc = NoService
    /\ call = NoCall
    /\ ret = NoReturn
    /\ before = NoCollection
    /\ client_calls = <<>>
    /\ RetrieverIdle
    /\ LoopIdle
    /\ LazyIdle
    /\ DocIdle
    /\ ViewIdle

\* RAGQueryView.post(request)
Post ==
    /\ http_request = NoHttpRequest
    /\ \E u \in Users, b \in Bodies :
         LET req == [method |-> "POST", user |-> u, body |-> b]
         IN  /\ http_request' = req
             /\ IF Rejection(req) # NoHttpResponse
                THEN /\ http_response' = Rejection(req)
                     /\ query_result' = NoQueryResult
                     /\ UNCHANGED <<collection, svc, agent>>
                ELSE \E result \in QueryAsyncResults(collection, svc, agent,
                                      StripQuestion(b.question), ViewFilter(b.category)),
                        query_id \in QueryIds, ms \in ResponseTimes :
                       /\ query_result' = [kind |-> result.kind,
                                           text |-> IF result.kind = "raised"
                                                    THEN result.text ELSE "",
                                           payload |-> IF result.kind = "raised"
                                                       THEN [answer |-> ""]
                                                       ELSE result.payload]
                       /\ http_response' = QueryOutcomeResponse(result, query_id, ms)
                       /\ collection' = result.collection
                       /\ svc' = result.svc
                       /\ agent' = result.agent
    /\ UNCHANGED <<chunkVars, call, ret, before, client_calls, request, response,
                   agent_calls, context_chunks, search_stage, generation,
                   loopVars, lazyVars, docVars>>

\* the client has the response
Receive ==
    /\ http_request # NoHttpRequest
    /\ http_request' = NoHttpRequest
    /\ query_result' = NoQueryResult
    /\ http_response' = NoHttpResponse
    /\ UNCHANGED viewFrame

ViewNext == Post \/ Receive

ViewSpec == ViewInit /\ [][ViewNext]_vars

\* the same ending of query_async with another text in the exception
WithText(result, t) ==
    IF result.kind = "raised" THEN [result EXCEPT !.text = t]
    ELSE IF "error" \in DOMAIN result.payload
    THEN [result EXCEPT !.payload = [@ EXCEPT !.error = t]]
    ELSE result

\* C23: for a caller who is not staff, the response of the query endpoint does
\* not depend on the text of the internal exception (embedding, index or
\* generation failure): had the exception carried any other text, the
\* response would be the same.
C23_NoErrorDetailToNonStaff ==
    (http_response # NoHttpResponse /\ query_result.kind \in {"raised", "returned"}
        /\ ~http_request.user.is_staff)
        => \A t \in AllErrorTexts :
             \E query_id \in QueryIds, ms \in ResponseTimes :
                 QueryOutcomeResponse(WithText(query_result, t), query_id, ms)
                     = http_response

====
